---- MODULE Spec2Model ----
(***************************************************************************)
(* Model of the NYC 311 pipeline: the chunked loader into the primary      *)
(* store (scripts/ingest_mysql.py) and the windowed sync into the          *)
(* secondary store (scripts/sync_to_mongo.py).                             *)
(*                                                                         *)
(* Dates are integer ticks, TicksPerYear per calendar year, so that the    *)
(* instant YYYY-01-01 00:00:00 is YYYY * TicksPerYear.  File names are     *)
(* sequences of character codes: 0..9 are the digits, X any other          *)
(* character.  Of the plain text columns (closed_date, agency,             *)
(* complaint_type, descriptor) only descriptor is carried: the code        *)
(* treats the four alike.                                                  *)
(***************************************************************************)
EXTENDS Integers, Sequences, FiniteSets, TLC

VARIABLES
    service_requests,   \* primary store: committed rows of table service_requests
    ingestion_log,      \* primary store: committed rows of table ingestion_log
    mongo_docs,         \* secondary store: documents of the service_requests collection
    mongo_sync_log,     \* secondary store: the mongo_sync_log collection, in insertion order
    ld,                 \* loader runs (ingest_mysql), by process
    sy,                 \* sync runs (sync_to_mongo), by process
    sync_runs,          \* how many times sync_to_mongo was called
    vc,                 \* the consistency check (validate_consistency.py)
    nz,                 \* one call of clean_chunk: the chunk read and what came back
    co,                 \* the driver of concurrent_ops.py and its three threads
    last_load,          \* history: the last loader run that ended
    last_sync,          \* history: the last sync run that ended
    fully_applied,      \* history: files of which one run applied every chunk
    last_batch          \* history: the last insert_batch call and what it returned

vars == <<service_requests, ingestion_log, mongo_docs, mongo_sync_log, ld, sy,
          last_load, last_sync, fully_applied, last_batch,
          sync_runs, vc, nz, co>>

-----------------------------------------------------------------------------
(* Bounds and value encodings *)

TicksPerYear == 2
MaxSyncRuns == 2

None == 0 - 1000000      \* NULL / NaN / NaT / Python None of a numeric or date value
BadText == 0 - 1000001   \* a text that parses neither as a date nor as a number
NoneS == "None"          \* NULL of a text value
X == 9 + 1               \* a character that is not a digit

Loaders == {1, 2}
Syncers == {1, 2}
SeqProcs == {1}

Date(year, tick) == year * TicksPerYear + tick

Raw(k, d, desc, boro, zip, lat, lon) ==
    [unique_key |-> k, created_date |-> d, descriptor |-> desc, borough |-> boro,
     incident_zip |-> zip, latitude |-> lat, longitude |-> lon]

(* The extract files of the model.  CSV(f) is the file read in chunks of   *)
(* BATCH_SIZE rows: a sequence of chunks, each a sequence of raw rows.     *)
FileA == <<X, 2, 0, 2, 3>>
FileB == <<2, 0, 2, 3, X>>
FileN == <<X, X>>
FileC == <<2, 0, 2, 2>>
FileD == <<2, 0, 2, 3, X, X>>
Files == {FileA, FileB, FileN}

CSV(f) ==
    IF f = FileA THEN
        << << Raw(1, Date(2023, 0), "a", "QUEENS", 111, 407, 0 - 740),
              Raw(2, Date(2023, 1), "x", NoneS, 112, 407, 0 - 740),
              Raw(None, Date(2023, 0), "a", NoneS, 999, 407, 0 - 740),
              Raw(3, BadText, "a", NoneS, 999, 407, 0 - 740),
              Raw(2, Date(2023, 1), "a", NoneS, 112, 407, 0 - 740) >>,
           << Raw(3, Date(2023, 1), "a", "BRONX", 104, 0, 0),
              Raw(1, Date(2023, 1), "b", "QUEENS", 111, 407, 0 - 740),
              Raw(4, Date(2023, 0), "d", "QUEENS", 111, 407, 0 - 740),
              Raw(3, Date(2023, 1), "a", "BRONX", 104, None, None) >> >>
    ELSE IF f = FileC THEN
        << << Raw(5, Date(2022, 0), "e", "BRONX", 104, 406, 0 - 739),
              Raw(6, Date(2022, 1), "e", "BRONX", 104, 406, 0 - 739) >> >>
    ELSE IF f = FileD THEN
        << << Raw(7, Date(2022, 0), "f", "BRONX", 104, 406, 0 - 739) >>,
           << Raw(8, Date(2022, 1), "f", "BRONX", 104, 406, 0 - 739) >> >>
    ELSE IF f = FileB THEN
        << << Raw(1, Date(2022, 1), "c", NoneS, 999, 405, 0 - 737),
              Raw(3, Date(2023, 1), "a", "BRONX", 104, 409, 0 - 743) >> >>
    ELSE
        << << Raw(3, Date(2024, 0), "n", NoneS, BadText, 407, 0 - 740) >>,
           << Raw(2, None, "n", NoneS, 112, 407, 0 - 740),
              Raw(2, Date(2022, 0), "n", NoneS, 112, BadText, 0 - 740) >> >>

-----------------------------------------------------------------------------
(* scripts/ingest_mysql.py: pure helpers *)

IsDigit(c) == c \in 0..9

\* re.search(r'(\d{4})', filename): the leftmost run of four digits, or None
year_match(filename) ==
    LET at == {i \in 1..(Len(filename) - 3) : \A j \in 0..3 : IsDigit(filename[i + j])}
    IN  IF at = {} THEN None
        ELSE LET i == CHOOSE i \in at : \A j \in at : i <= j
             IN  filename[i] * 1000 + filename[i + 1] * 100
                    + filename[i + 2] * 10 + filename[i + 3]

\* the text "YYYY-01-01": a value of type string that denotes an instant
DateString(year) == [bson |-> "string", v |-> Date(year, 0)]

\* raises ValueError (ok = FALSE) when the name holds no year
parse_date_range_from_filename(filename) ==
    LET year == year_match(filename)
    IN  IF year = None
        THEN [ok |-> FALSE, start_date |-> DateString(0), end_date |-> DateString(0)]
        ELSE [ok |-> TRUE, start_date |-> DateString(year),
              end_date |-> DateString(year + 1)]

\* MySQL compares a DATETIME column with a string literal as datetimes
MySQLDatetime(s) == s.v

infer_borough_from_zip(zip) ==
    IF zip \in {None, BadText} THEN NoneS
    ELSE IF zip \in {100, 101, 102} THEN "MANHATTAN"
    ELSE IF zip = 103 THEN "STATEN ISLAND"
    ELSE IF zip = 104 THEN "BRONX"
    ELSE IF zip \in {111, 113, 114, 116} THEN "QUEENS"
    ELSE IF zip = 112 THEN "BROOKLYN"
    ELSE NoneS

\* pd.to_datetime(..., errors="coerce") and pd.to_numeric(..., errors="coerce")
Coerce(x) == IF x = BadText THEN None ELSE x

\* Series.between(lo, hi): inclusive on both ends, False for NaN
Between(x, lo, hi) == x # None /\ lo <= x /\ x <= hi

RECURSIVE SeqFilter(_, _)
\* the rows of s at the positions in keep, in order
SeqFilter(s, keep) ==
    IF s = <<>> THEN <<>>
    ELSE LET n == Len(s)
             front == SeqFilter(SubSeq(s, 1, n - 1), keep)
         IN  IF n \in keep THEN Append(front, s[n]) ELSE front

\* a filter that asks for the key only
dropna_key_only(parsed) ==
    {i \in DOMAIN parsed : parsed[i].unique_key # None}

\* dropna(subset=["unique_key", "created_date"]) (line 147): the positions kept
dropna(parsed) ==
    {i \in DOMAIN parsed :
        parsed[i].unique_key # None /\ parsed[i].created_date # None}

\* a deduplication that keeps the first occurrence of a key
drop_duplicates_keep_first(parsed, rows) ==
    {i \in rows : \A j \in rows : j < i => parsed[j].unique_key # parsed[i].unique_key}

\* drop_duplicates(subset=["unique_key"], keep="last") (line 150): the
\* positions kept among rows
drop_duplicates(parsed, rows) ==
    {i \in rows : \A j \in rows : j > i => parsed[j].unique_key # parsed[i].unique_key}

clean_chunk(chunk) ==
    LET original_count == Len(chunk)
        \* the datetimes parsed and the numerics coerced
        coerced == [i \in 1..Len(chunk) |->
                       [chunk[i] EXCEPT !.created_date = Coerce(@),
                                        !.latitude = Coerce(@),
                                        !.longitude = Coerce(@)]]
        parsed(i) == coerced[i]
        initial_rows == Len(chunk)
        \* 1. drop the rows missing a required field
        required == dropna(coerced)
        \* 2. remove duplicates
        deduped == drop_duplicates(coerced, required)
        \* 3. infer missing boroughs
        inferred(i) == IF parsed(i).borough = NoneS
                       THEN infer_borough_from_zip(parsed(i).incident_zip)
                       ELSE parsed(i).borough
        \* 4. NYC bounds, in tenths of a degree
        nyc_mask == {i \in deduped :
                        Between(parsed(i).latitude, 405, 409)
                        /\ Between(parsed(i).longitude, 0 - 743, 0 - 737)}
        \* final column selection
        final(i) == [unique_key |-> parsed(i).unique_key,
                     created_date |-> parsed(i).created_date,
                     descriptor |-> parsed(i).descriptor,
                     borough |-> inferred(i),
                     latitude |-> parsed(i).latitude,
                     longitude |-> parsed(i).longitude]
        df == SeqFilter([i \in 1..Len(chunk) |-> final(i)], nyc_mask)
        cleaned_count == Len(df)
    IN  [df |-> df,
         stats |-> [original |-> original_count,
                    cleaned |-> cleaned_count,
                    \* df is the final frame here: it has no missing key or date left
                    dropped_required |-> initial_rows - Len(df),
                    dropped_dupes |-> Len(df) - cleaned_count,
                    \* "latitude" is never a local name of clean_chunk
                    nyc_bounds_filtered |-> 0]]

\* no call of clean_chunk yet
NoChunk ==
    [pc |-> "idle", chunk |-> <<>>, df |-> <<>>,
     stats |-> [original |-> 0, cleaned |-> 0, dropped_required |-> 0,
                dropped_dupes |-> 0, nyc_bounds_filtered |-> 0]]

\* df, stats = clean_chunk(chunk) (line 284)
CleanChunk ==
    /\ nz.pc = "read"
    /\ LET out == clean_chunk(nz.chunk)
       IN  nz' = [nz EXCEPT !.pc = "cleaned", !.df = out.df, !.stats = out.stats]
    /\ UNCHANGED <<service_requests, ingestion_log, mongo_docs, mongo_sync_log, ld, sy,
                   last_load, last_sync, fully_applied, last_batch, sync_runs, vc, co>>

-----------------------------------------------------------------------------
(* The primary store as one connection sees it: the committed tables and   *)
(* the connection's working copy (autocommit is off).                      *)

Tables(rows, log) == [service_requests |-> rows, ingestion_log |-> log]
Connect(rows, log) == [committed |-> Tables(rows, log), working |-> Tables(rows, log)]
commit(conn) == [committed |-> conn.working, working |-> conn.working]
rollback(conn) == [committed |-> conn.committed, working |-> conn.committed]

\* INSERT IGNORE: a row whose key is taken is left as it is
Upsert_ignores(rows, row) ==
    IF \E r \in rows : r.unique_key = row.unique_key THEN rows ELSE rows \cup {row}

\* INSERT ... ON DUPLICATE KEY UPDATE <every other column>=VALUES(...)
Upsert(rows, row) == {r \in rows : r.unique_key # row.unique_key} \cup {row}

RECURSIVE executemany(_, _, _)
\* the first n rows of data written through the connection, uncommitted
executemany(conn, data, n) ==
    IF n = 0 THEN conn
    ELSE LET before == executemany(conn, data, n - 1)
         IN  [before EXCEPT !.working.service_requests = Upsert(@, data[n])]

\* a gate that looks the file up by its path, not by the basename the ledger holds
log_ingestion_start_by_path(log, filename) ==
    LET result == {e \in log : e.dataset_file = <<X>> \o filename}
    IN  result # {}

\* log_ingestion_start: fetchone() is a row (a non-empty tuple) or None
log_ingestion_start(log, filename) ==
    LET result == {e \in log : e.dataset_file = filename}
    IN  result # {}

\* a delete with no WHERE clause: the whole table
cleanup_previous_data_all(rows, filename) == {}

\* a window delete that takes the end of the window too
cleanup_previous_data_closed(rows, filename) ==
    LET w == parse_date_range_from_filename(filename)
    IN  IF ~w.ok THEN rows
        ELSE {r \in rows : ~(r.created_date >= MySQLDatetime(w.start_date)
                             /\ r.created_date <= MySQLDatetime(w.end_date))}

\* a cleanup that falls back to the window of the year 2022 when the name
\* holds no year
cleanup_previous_data_default(rows, filename) ==
    LET w == parse_date_range_from_filename(filename)
        start_date == IF w.ok THEN w.start_date ELSE DateString(2022)
        end_date == IF w.ok THEN w.end_date ELSE DateString(2023)
    IN  {r \in rows : ~(r.created_date >= MySQLDatetime(start_date)
                        /\ r.created_date < MySQLDatetime(end_date))}

\* cleanup_previous_data: DELETE ... WHERE created_date >= start AND created_date < end,
\* skipped when the name holds no year
cleanup_previous_data(rows, filename) ==
    LET w == parse_date_range_from_filename(filename)
    IN  IF ~w.ok THEN rows
        ELSE {r \in rows : ~(r.created_date >= MySQLDatetime(w.start_date)
                             /\ r.created_date < MySQLDatetime(w.end_date))}

\* a batch whose failure leaves the rows written so far committed
insert_batch_keeps_partial(conn, df, failAt) ==
    IF df = <<>> THEN [conn |-> conn, raised |-> FALSE]
    ELSE IF failAt = 0
    THEN [conn |-> commit(executemany(conn, df, Len(df))), raised |-> FALSE]
    ELSE [conn |-> commit(executemany(conn, df, failAt - 1)), raised |-> TRUE]

\* insert_batch: failAt = 0 is a batch whose every write succeeds; failAt = k
\* is a batch whose k-th write fails, after rows 1..k-1 were written
insert_batch(conn, df, failAt) ==
    IF df = <<>> THEN [conn |-> conn, raised |-> FALSE]
    ELSE IF failAt = 0
    THEN [conn |-> commit(executemany(conn, df, Len(df))), raised |-> FALSE]
    ELSE [conn |-> rollback(executemany(conn, df, failAt - 1)), raised |-> TRUE]

\* a run that commits whatever it wrote, raised or not
end_transaction_commits(conn, raised) == commit(conn)

\* conn.commit() of line 327, or the conn.rollback() of line 330 when the run raised
end_transaction(conn, raised) == IF raised THEN rollback(conn) ELSE commit(conn)

\* a ledger row that adds the rows of the run to the rows already counted
record_ledger_adds(log, filename, total_rows) ==
    {e \in log : e.dataset_file # filename}
        \cup {[dataset_file |-> filename,
               ingested_rows |-> total_rows
                   + (IF \E e \in log : e.dataset_file = filename
                      THEN (CHOOSE e \in log : e.dataset_file = filename).ingested_rows
                      ELSE 0)]}

\* the ledger row written after the loop, ON DUPLICATE KEY UPDATE
record_ledger(log, filename, total_rows) ==
    {e \in log : e.dataset_file # filename}
        \cup {[dataset_file |-> filename, ingested_rows |-> total_rows]}

-----------------------------------------------------------------------------
(* scripts/ingest_mysql.py: one run of ingest_mysql, step by step.  Every  *)
(* step ends with the connection committed or rolled back, so the          *)
(* committed tables are all another connection can see between steps.      *)

IdleLoader ==
    [pc |-> "idle", file |-> <<>>, chunk_num |-> 0, total_rows |-> 0,
     total_chunks |-> 0, result |-> "none", conn_open |-> FALSE,
     ops |-> {}, failed_chunks |-> {}, applied |-> {},
     table0 |-> {}, log0 |-> {}, rerun |-> FALSE, after_success |-> FALSE,
     base |-> Tables({}, {})]

IdleSync ==
    [pc |-> "idle", filename |-> <<>>, limit |-> 0,
     start_date |-> DateString(0), end_date |-> DateString(0),
     log_id |-> 0, docs |-> <<>>, i |-> 0, total_upserted |-> 0,
     result |-> "none", conns_open |-> FALSE,
     trace |-> <<>>, docs0 |-> {}, primary0 |-> {}, rows_read |-> 0 - 1,
     failed_batches |-> {}, rerun |-> FALSE]

NoLoad == [file |-> <<>>, result |-> "none", base |-> Tables({}, {})]

NoSync == [start_date |-> DateString(0), end_date |-> DateString(0), limit |-> 0,
           result |-> "none"]

NoBatch == [called |-> FALSE, before |-> Tables({}, {}), df |-> <<>>, failAt |-> 0,
            conn |-> Connect({}, {}), raised |-> FALSE]

LoaderActive(p) == ld[p].pc \notin {"idle", "done"}
SyncActive(p) == sy[p].pc \notin {"idle", "done"}
NothingRuns == (\A q \in Loaders : ~LoaderActive(q)) /\ (\A q \in Syncers : ~SyncActive(q))

\* a run that has ended: its result, the connection closed, the history kept
EndLoad(run, result) ==
    [run EXCEPT !.pc = "done", !.result = result, !.conn_open = FALSE]

\* pymysql.connect and create_ingestion_log_table (lines 258-268)
IngestStart(p, f) ==
    /\ ~LoaderActive(p)
    /\ LET again == last_load.file = f /\ last_load.result = "failed"
       IN  ld' = [ld EXCEPT ![p] =
                    [IdleLoader EXCEPT
                        !.pc = "gate", !.file = f, !.conn_open = TRUE,
                        !.table0 = service_requests, !.log0 = ingestion_log,
                        !.rerun = again,
                        !.after_success = (last_load.file = f
                                           /\ last_load.result = "success"),
                        !.base = IF again THEN last_load.base
                                 ELSE Tables(service_requests, ingestion_log)]]
    /\ sy' = [q \in Syncers |-> IF SyncActive(q) THEN sy[q] ELSE IdleSync]
    /\ last_batch' = NoBatch
    /\ UNCHANGED <<sync_runs, vc, nz, co>>
    /\ UNCHANGED <<service_requests, ingestion_log, mongo_docs, mongo_sync_log,
                   last_load, last_sync, fully_applied>>

\* a gate that opens the ledger entry itself, as log_sync_start does for a sync
IngestGate_logs_start(p) ==
    /\ ld[p].pc = "gate"
    /\ IF log_ingestion_start(ingestion_log, ld[p].file)
       THEN ld' = [ld EXCEPT ![p] = EndLoad(@, "skipped")] /\ UNCHANGED ingestion_log
       ELSE /\ ld' = [ld EXCEPT ![p].pc = "cleanup"]
            /\ ingestion_log' = record_ledger(ingestion_log, ld[p].file, 0)
    /\ UNCHANGED <<sync_runs, vc, nz, co>>
    /\ UNCHANGED <<service_requests, mongo_docs, mongo_sync_log, sy,
                   last_load, last_sync, fully_applied, last_batch>>

\* STEP 2: the idempotency check (lines 270-272, and the finally of line 334)
IngestGate(p) ==
    /\ ld[p].pc = "gate"
    /\ IF log_ingestion_start(ingestion_log, ld[p].file)
       THEN ld' = [ld EXCEPT ![p] = EndLoad(@, "skipped")]
       ELSE ld' = [ld EXCEPT ![p].pc = "cleanup"]
    /\ UNCHANGED <<sync_runs, vc, nz, co>>
    /\ UNCHANGED <<service_requests, ingestion_log, mongo_docs, mongo_sync_log, sy,
                   last_load, last_sync, fully_applied, last_batch>>

\* STEP 3: cleanup_previous_data and its commit (lines 274-279)
IngestCleanup(p) ==
    /\ ld[p].pc = "cleanup"
    /\ service_requests' = cleanup_previous_data(service_requests, ld[p].file)
    /\ ld' = [ld EXCEPT ![p].pc = "chunks",
                        ![p].ops = IF parse_date_range_from_filename(ld[p].file).ok
                                   THEN @ \cup {"delete"} ELSE @]
    /\ last_sync' = IF service_requests' # service_requests THEN NoSync ELSE last_sync
    /\ UNCHANGED <<sync_runs, vc, nz, co>>
    /\ UNCHANGED <<ingestion_log, mongo_docs, mongo_sync_log, sy,
                   last_load, fully_applied, last_batch>>

\* one turn of the chunk loop (lines 282-293), with the except and finally
\* branches (lines 329-334) when insert_batch raises
IngestChunk(p, faults) ==
    /\ ld[p].pc = "chunks"
    /\ ld[p].chunk_num < Len(CSV(ld[p].file))
    /\ LET df == clean_chunk(CSV(ld[p].file)[ld[p].chunk_num + 1]).df
           conn == Connect(service_requests, ingestion_log)
       IN  IF df = <<>>
           THEN /\ ld' = [ld EXCEPT ![p].chunk_num = @ + 1]
                /\ UNCHANGED <<service_requests, last_load, last_batch>>
           ELSE \E failAt \in (IF faults THEN 0..Len(df) ELSE {0}) :
                  LET res == insert_batch(conn, df, failAt)
                  IN  /\ last_batch' = [called |-> TRUE, before |-> conn.committed,
                                        df |-> df, failAt |-> failAt,
                                        conn |-> res.conn, raised |-> res.raised]
                      /\ IF res.raised
                         THEN /\ service_requests' =
                                    end_transaction(res.conn, TRUE)
                                        .committed.service_requests
                              /\ ld' = [ld EXCEPT ![p] =
                                          EndLoad([@ EXCEPT !.failed_chunks =
                                                      @ \cup {ld[p].chunk_num + 1}],
                                                  "failed")]
                              /\ last_load' = [file |-> ld[p].file, result |-> "failed",
                                               base |-> ld[p].base]
                         ELSE /\ service_requests' = res.conn.committed.service_requests
                              /\ ld' = [ld EXCEPT
                                          ![p].chunk_num = @ + 1,
                                          ![p].total_rows = @ + Len(df),
                                          ![p].total_chunks = @ + 1,
                                          ![p].ops = @ \cup {"upsert"},
                                          ![p].applied = @ \cup {df[i] : i \in 1..Len(df)}]
                              /\ UNCHANGED last_load
    /\ fully_applied' =
          IF ld'[p].pc = "chunks" /\ ld'[p].chunk_num = Len(CSV(ld[p].file))
             /\ ld'[p].failed_chunks = {}
          THEN fully_applied \cup {ld[p].file} ELSE fully_applied
    /\ last_sync' = IF service_requests' # service_requests THEN NoSync ELSE last_sync
    /\ UNCHANGED <<sync_runs, vc, nz, co>>
    /\ UNCHANGED <<ingestion_log, mongo_docs, mongo_sync_log, sy>>

\* after the loop: the ledger row, run_data_quality_checks and the commit
\* (lines 304-327); when one of them raises, the rollback of line 330
IngestFinish(p, faults) ==
    /\ ld[p].pc = "chunks"
    /\ ld[p].chunk_num = Len(CSV(ld[p].file))
    /\ \E raised \in (IF faults THEN BOOLEAN ELSE {FALSE}) :
          LET conn == Connect(service_requests, ingestion_log)
              wrote == [conn EXCEPT !.working.ingestion_log =
                           record_ledger(@, ld[p].file, ld[p].total_rows)]
              after == end_transaction(wrote, raised)
          IN  /\ ingestion_log' = after.committed.ingestion_log
              /\ service_requests' = after.committed.service_requests
              /\ ld' = [ld EXCEPT ![p] =
                          IF raised THEN EndLoad(@, "failed")
                          ELSE EndLoad([@ EXCEPT !.ops = @ \cup {"ledger"}], "success")]
              /\ last_load' = IF raised
                               THEN [file |-> ld[p].file, result |-> "failed",
                                     base |-> ld[p].base]
                               ELSE [NoLoad EXCEPT !.file = ld[p].file,
                                                   !.result = "success"]
    /\ UNCHANGED <<sync_runs, vc, nz, co>>
    /\ UNCHANGED <<mongo_docs, mongo_sync_log, sy, last_sync, fully_applied, last_batch>>

\* The tables a run of ingest_mysql on file f leaves when nothing fails: the
\* window cleared, then chunks 1..n cleaned and inserted, then the ledger row.
RECURSIVE LoadChunks(_, _, _)
LoadChunks(rows, f, n) ==
    IF n = 0 THEN rows
    ELSE insert_batch(Connect(LoadChunks(rows, f, n - 1), {}),
                      clean_chunk(CSV(f)[n]).df, 0).conn.committed.service_requests

RECURSIVE TotalRows(_, _)
TotalRows(f, n) ==
    IF n = 0 THEN 0 ELSE TotalRows(f, n - 1) + Len(clean_chunk(CSV(f)[n]).df)

FullLoad(tables, f) ==
    Tables(LoadChunks(cleanup_previous_data(tables.service_requests, f), f, Len(CSV(f))),
           record_ledger(tables.ingestion_log, f, TotalRows(f, Len(CSV(f)))))

-----------------------------------------------------------------------------
(* scripts/sync_to_mongo.py: pure helpers.  A value stored in or compared  *)
(* by the secondary store carries its BSON type.                           *)

Years == {2022}            \* what datetime.now() may say
SyncNames == {FileA, FileN}

\* a Python datetime is stored as a BSON date, a Python float as a BSON double
BsonDate(d) == [bson |-> "date", v |-> d]
float(x) == [bson |-> "double", v |-> x]

\* $gte and $lt match only values of the bound's own BSON type
BsonGte(a, b) == a.bson = b.bson /\ a.v >= b.v
BsonLt(a, b) == a.bson = b.bson /\ a.v < b.v

\* datetime.now() stands in when the name holds no year; never raises
sync_parse_date_range_from_filename(filename, now) ==
    LET m == year_match(filename)
        year == IF m = None THEN now ELSE m
    IN  [start_date |-> DateString(year), end_date |-> DateString(year + 1)]

\* the rows of a result set in primary-key order
ByKey(rows) ==
    [i \in 1..Cardinality(rows) |->
        CHOOSE r \in rows :
            Cardinality({q \in rows : q.unique_key < r.unique_key}) = i - 1]

\* fetch_mysql_rows: limit = 0 is limit None (and LIMIT 0 alike: "if limit:")
fetch_mysql_rows(table, start_date, end_date, limit) ==
    LET hit == ByKey({r \in table : r.created_date >= MySQLDatetime(start_date)
                                    /\ r.created_date < MySQLDatetime(end_date)})
        got == IF limit # 0 /\ limit < Len(hit) THEN SubSeq(hit, 1, limit) ELSE hit
    IN  [i \in 1..Len(got) |->
            [got[i] EXCEPT
                !.latitude = IF @ # None THEN float(@) ELSE @,
                !.longitude = IF @ # None THEN float(@) ELSE @]]

\* doc = dict(r); doc["_id"] = r["unique_key"], as pymongo encodes it
Doc(r) ==
    [_id |-> r.unique_key, unique_key |-> r.unique_key,
     created_date |-> BsonDate(r.created_date), descriptor |-> r.descriptor,
     borough |-> r.borough, latitude |-> r.latitude, longitude |-> r.longitude]

\* a cleanup that empties the collection: delete_many({})
cleanup_previous_mongo_all(docs, start_date, end_date) == {}

\* cleanup_previous_mongo: delete_many({"created_date": {"$gte": start_date,
\* "$lt": end_date}}) with the two bounds the strings "YYYY-01-01"
cleanup_previous_mongo(docs, start_date, end_date) ==
    {d \in docs : ~(BsonGte(d.created_date, start_date)
                    /\ BsonLt(d.created_date, end_date))}

\* a ledger step that reopens the window's latest entry when there is one
log_sync_start_reopens(log, start_date, end_date) ==
    LET same == {k \in 1..Len(log) : log[k].window_start = start_date
                                     /\ log[k].window_end = end_date}
    IN  IF same = {}
        THEN [log |-> Append(log, [window_start |-> start_date,
                                   window_end |-> end_date,
                                   status |-> "running", rows_synced |-> 0]),
              log_id |-> Len(log) + 1]
        ELSE LET k == CHOOSE k \in same : \A j \in same : j <= k
             IN  [log |-> [log EXCEPT ![k].status = "running", ![k].rows_synced = 0],
                  log_id |-> k]

log_sync_start(log, start_date, end_date) ==
    [log |-> Append(log, [window_start |-> start_date, window_end |-> end_date,
                          status |-> "running", rows_synced |-> 0]),
     log_id |-> Len(log) + 1]

\* a closing entry that says success whatever the run found
log_sync_end_always_success(log, log_id, rows_synced, status) ==
    [log EXCEPT ![log_id].status = "success", ![log_id].rows_synced = rows_synced]

log_sync_end(log, log_id, rows_synced, status) ==
    [log EXCEPT ![log_id].status = status, ![log_id].rows_synced = rows_synced]

\* a bulk write that inserts the new documents and removes the matched ones
bulk_write_drops_matched(docs, batch, sel) ==
    LET ids == {batch[i]._id : i \in sel}
        new == {batch[i] : i \in sel}
    IN  [docs |-> {d \in docs : d._id \notin ids}
                    \cup {d \in new : \A e \in docs : e._id # d._id},
         upserted_count |-> Cardinality({d \in new : \A e \in docs : e._id # d._id}),
         modified_count |-> 0]

\* UpdateOne({"_id": d["_id"]}, {"$set": d}, upsert=True) for the documents of
\* batch at the positions in sel (an unordered bulk write applies what it can)
bulk_write(docs, batch, sel) ==
    LET ids == {batch[i]._id : i \in sel}
        new == {batch[i] : i \in sel}
    IN  [docs |-> {d \in docs : d._id \notin ids} \cup new,
         upserted_count |-> Cardinality({d \in new : \A e \in docs : e._id # d._id}),
         modified_count |-> Cardinality({d \in new :
                                \E e \in docs : e._id = d._id /\ e # d})]

batch_size == 2   \* 1000 in the source; scaled to the model's row counts

\* the documents of a collection whose created_date lies in [start, end)
DocsIn(docs, start_date, end_date) ==
    {d \in docs : d.created_date.v >= start_date.v /\ d.created_date.v < end_date.v}

-----------------------------------------------------------------------------
(* scripts/sync_to_mongo.py: one run of sync_to_mongo, step by step *)

EndSync(run, result) ==
    [run EXCEPT !.pc = "done", !.result = result, !.conns_open = FALSE]

SyncRecord(run, result) ==
    [start_date |-> run.start_date, end_date |-> run.end_date, limit |-> run.limit,
     result |-> result]

\* lines 154-178: the MONGODB_URI test, the two connections, the window
SyncStart(p, f, limit, uri_set, now) ==
    /\ ~SyncActive(p)
    /\ sync_runs < MaxSyncRuns
    /\ sync_runs' = sync_runs + 1
    /\ UNCHANGED <<vc, nz, co>>
    /\ LET w == sync_parse_date_range_from_filename(f, now)
           again == /\ last_sync.result = "success"
                    /\ last_sync.start_date = w.start_date
                    /\ last_sync.end_date = w.end_date
                    /\ last_sync.limit = limit
           run == [IdleSync EXCEPT
                     !.filename = f, !.limit = limit,
                     !.docs0 = mongo_docs, !.primary0 = service_requests]
       IN  IF ~uri_set
           THEN sy' = [sy EXCEPT ![p] = EndSync(run, "failed")]
           ELSE sy' =
                  [sy EXCEPT ![p] =
                      [run EXCEPT !.pc = "log", !.conns_open = TRUE,
                                  !.start_date = w.start_date,
                                  !.end_date = w.end_date,
                                  !.rerun = again]]
    /\ ld' = [q \in Loaders |-> IF LoaderActive(q) THEN ld[q] ELSE IdleLoader]
    /\ last_batch' = NoBatch
    /\ UNCHANGED <<service_requests, ingestion_log, mongo_docs, mongo_sync_log,
                   last_load, last_sync, fully_applied>>

\* a run that clears the window before it opens its ledger entry
SyncLogStart_after_cleanup(p) ==
    /\ sy[p].pc = "log"
    /\ LET started == log_sync_start(mongo_sync_log, sy[p].start_date, sy[p].end_date)
       IN  /\ mongo_docs' = cleanup_previous_mongo(mongo_docs, sy[p].start_date,
                                                   sy[p].end_date)
           /\ mongo_sync_log' = started.log
           /\ sy' = [sy EXCEPT ![p].pc = "fetch",
                               ![p].log_id = started.log_id,
                               ![p].trace = @ \o <<"delete", "log">>]
    /\ UNCHANGED <<sync_runs, vc, nz, co>>
    /\ UNCHANGED <<service_requests, ingestion_log, ld,
                   last_load, last_sync, fully_applied, last_batch>>

\* line 182: log_sync_start
SyncLogStart(p) ==
    /\ sy[p].pc = "log"
    /\ \E raised \in BOOLEAN :
          IF raised
          THEN /\ sy' = [sy EXCEPT ![p] = EndSync(@, "failed")]
               /\ last_sync' = NoSync
               /\ UNCHANGED mongo_sync_log
          ELSE LET started == log_sync_start(mongo_sync_log, sy[p].start_date,
                                             sy[p].end_date)
               IN  /\ mongo_sync_log' = started.log
                   /\ sy' = [sy EXCEPT ![p].pc = "cleanup",
                                       ![p].log_id = started.log_id,
                                       ![p].trace = Append(@, "log")]
                   /\ UNCHANGED last_sync
    /\ UNCHANGED <<sync_runs, vc, nz, co>>
    /\ UNCHANGED <<service_requests, ingestion_log, mongo_docs, ld,
                   last_load, fully_applied, last_batch>>

\* a cleanup that clears the window in the primary store as well
SyncCleanup_both_stores(p) ==
    /\ sy[p].pc = "cleanup"
    /\ mongo_docs' = cleanup_previous_mongo(mongo_docs, sy[p].start_date, sy[p].end_date)
    /\ service_requests' =
           {r \in service_requests :
               ~(r.created_date >= MySQLDatetime(sy[p].start_date)
                 /\ r.created_date < MySQLDatetime(sy[p].end_date))}
    /\ sy' = [sy EXCEPT ![p].pc = "fetch", ![p].trace = Append(@, "delete")]
    /\ UNCHANGED <<sync_runs, vc, nz, co>>
    /\ UNCHANGED <<ingestion_log, mongo_sync_log, ld,
                   last_load, last_sync, fully_applied, last_batch>>

\* line 186: cleanup_previous_mongo
SyncCleanup(p) ==
    /\ sy[p].pc = "cleanup"
    /\ \E raised \in BOOLEAN :
          IF raised
          THEN /\ sy' = [sy EXCEPT ![p] = EndSync(@, "failed")]
               /\ last_sync' = NoSync
               /\ UNCHANGED mongo_docs
          ELSE /\ mongo_docs' = cleanup_previous_mongo(mongo_docs, sy[p].start_date,
                                                       sy[p].end_date)
               /\ sy' = [sy EXCEPT ![p].pc = "fetch",
                                   ![p].trace = Append(@, "delete")]
               /\ UNCHANGED last_sync
    /\ UNCHANGED <<sync_runs, vc, nz, co>>
    /\ UNCHANGED <<service_requests, ingestion_log, mongo_sync_log, ld,
                   last_load, fully_applied, last_batch>>

\* lines 189-207: fetch_mysql_rows, the no_data exit, the documents
SyncFetch(p) ==
    /\ sy[p].pc = "fetch"
    /\ \E raised \in BOOLEAN :
          IF raised
          THEN /\ sy' = [sy EXCEPT ![p] = EndSync(@, "failed")]
               /\ last_sync' = NoSync
               /\ UNCHANGED mongo_sync_log
          ELSE LET rows == fetch_mysql_rows(service_requests, sy[p].start_date,
                                            sy[p].end_date, sy[p].limit)
                   read == [sy[p] EXCEPT !.trace = Append(@, "read"),
                                         !.rows_read = Len(rows)]
               IN  IF rows = <<>>
                   THEN /\ mongo_sync_log' =
                              log_sync_end(mongo_sync_log, sy[p].log_id, 0, "no_data")
                        /\ sy' = [sy EXCEPT ![p] = EndSync(read, "no_data")]
                        /\ last_sync' = NoSync
                   ELSE /\ sy' = [sy EXCEPT ![p] =
                                    [read EXCEPT !.pc = "batches",
                                                 !.docs = [k \in 1..Len(rows) |->
                                                              Doc(rows[k])]]]
                        /\ UNCHANGED <<mongo_sync_log, last_sync>>
    /\ UNCHANGED <<sync_runs, vc, nz, co>>
    /\ UNCHANGED <<service_requests, ingestion_log, mongo_docs, ld,
                   last_load, fully_applied, last_batch>>

\* a batch loop that prints the failure of a bulk write and goes on
SyncBatch_swallows(p) ==
    /\ sy[p].pc = "batches"
    /\ sy[p].i < Len(sy[p].docs)
    /\ LET last == IF sy[p].i + batch_size < Len(sy[p].docs)
                   THEN sy[p].i + batch_size ELSE Len(sy[p].docs)
           batch == SubSeq(sy[p].docs, sy[p].i + 1, last)
       IN  \E sel \in SUBSET (1..Len(batch)) :
              LET result == bulk_write(mongo_docs, batch, sel)
              IN  /\ mongo_docs' = result.docs
                  /\ sy' = [sy EXCEPT
                        ![p].trace = IF sel # {} THEN Append(@, "upsert") ELSE @,
                        ![p].failed_batches = IF sel # 1..Len(batch)
                                              THEN @ \cup {sy[p].i} ELSE @,
                        ![p].i = @ + batch_size,
                        ![p].total_upserted = @ + result.upserted_count
                                                + result.modified_count]
    /\ UNCHANGED <<sync_runs, vc, nz, co>>
    /\ UNCHANGED <<service_requests, ingestion_log, mongo_sync_log, ld,
                   last_load, last_sync, fully_applied, last_batch>>

\* one turn of the batch loop (lines 209-235): the bulk write applies the
\* operations at the positions in sel; it raises unless it applied them all
SyncBatch(p) ==
    /\ sy[p].pc = "batches"
    /\ sy[p].i < Len(sy[p].docs)
    /\ LET last == IF sy[p].i + batch_size < Len(sy[p].docs)
                   THEN sy[p].i + batch_size ELSE Len(sy[p].docs)
           batch == SubSeq(sy[p].docs, sy[p].i + 1, last)
       IN  \E sel \in SUBSET (1..Len(batch)) :
              LET result == bulk_write(mongo_docs, batch, sel)
                  wrote == [sy[p] EXCEPT
                              !.trace = IF sel # {} THEN Append(@, "upsert") ELSE @]
              IN  /\ mongo_docs' = result.docs
                  /\ IF sel # 1..Len(batch)
                     THEN /\ sy' = [sy EXCEPT ![p] =
                                      EndSync([wrote EXCEPT !.failed_batches =
                                                  @ \cup {sy[p].i}], "failed")]
                          /\ last_sync' = NoSync
                     ELSE /\ sy' = [sy EXCEPT ![p] =
                                      [wrote EXCEPT
                                          !.i = @ + batch_size,
                                          !.total_upserted = @ + result.upserted_count
                                                               + result.modified_count]]
                          /\ UNCHANGED last_sync
    /\ UNCHANGED <<sync_runs, vc, nz, co>>
    /\ UNCHANGED <<service_requests, ingestion_log, mongo_sync_log, ld,
                   last_load, fully_applied, last_batch>>

\* after the loop (lines 237-249): log_sync_end, validate_counts, the finally
SyncFinish(p) ==
    /\ sy[p].pc = "batches"
    /\ sy[p].i >= Len(sy[p].docs)
    /\ mongo_sync_log' = log_sync_end(mongo_sync_log, sy[p].log_id,
                                      sy[p].total_upserted, "success")
    /\ sy' = [sy EXCEPT ![p] = EndSync(@, "success")]
    /\ last_sync' = SyncRecord(sy[p], "success")
    /\ UNCHANGED <<sync_runs, vc, nz, co>>
    /\ UNCHANGED <<service_requests, ingestion_log, mongo_docs, ld,
                   last_load, fully_applied, last_batch>>

-----------------------------------------------------------------------------
(* scripts/validate_consistency.py *)

threshold == 1000

\* what SELECT COUNT(*) and count_documents({}) may return
Counts == {0, 1, 500, 1001, 1002, 9500, 10000}

Abs(x) == IF x < 0 THEN 0 - x ELSE x

NoGauges == [mysql_row_count |-> 0, mongo_doc_count |-> 0, sync_mismatch_count |-> 0,
             sync_status |-> 0, last_check_timestamp |-> 0]

NoReturn == <<>>

\* a check that raises in poll mode as it does in the one-shot mode
validate_counts_always_raises(mysql_count, mongo_count, update_metrics, gauges, now) ==
    LET mismatch == Abs(mysql_count - mongo_count)
    IN  IF mongo_count = 0 \/ mysql_count = 0 \/ mismatch > threshold
        THEN [raised |-> TRUE, ret |-> NoReturn, gauges |-> gauges, verdict |-> "failed"]
        ELSE [raised |-> FALSE, ret |-> <<mysql_count, mongo_count, mismatch>>,
              gauges |-> gauges,
              verdict |-> IF mismatch = 0 THEN "perfect" ELSE "within_range"]

\* validate_counts from line 60 on, the two counts read (lines 38-58)
validate_counts(mysql_count, mongo_count, update_metrics, gauges, now) ==
    LET mismatch == Abs(mysql_count - mongo_count)
        is_in_sync == mismatch = 0
        set == IF update_metrics
               THEN [mysql_row_count |-> mysql_count,
                     mongo_doc_count |-> mongo_count,
                     sync_mismatch_count |-> mismatch,
                     sync_status |-> IF is_in_sync THEN 1 ELSE 0,
                     last_check_timestamp |-> now]
               ELSE gauges
        returned == <<mysql_count, mongo_count, mismatch>>
    IN  IF mongo_count = 0 \/ mysql_count = 0
        THEN IF update_metrics
             THEN [raised |-> FALSE, ret |-> returned, gauges |-> set, verdict |-> "empty"]
             ELSE [raised |-> TRUE, ret |-> NoReturn, gauges |-> set, verdict |-> "empty"]
        ELSE IF mismatch > threshold
        THEN IF update_metrics
             THEN [raised |-> FALSE, ret |-> returned, gauges |-> set,
                   verdict |-> "too_large"]
             ELSE [raised |-> TRUE, ret |-> NoReturn, gauges |-> set,
                   verdict |-> "too_large"]
        ELSE [raised |-> FALSE, ret |-> returned, gauges |-> set,
              verdict |-> IF is_in_sync THEN "perfect" ELSE "within_range"]

\* the process of validate_consistency.py: where it is, what its last check
\* read and answered, and the gauges of the metrics registry
IdleCheck == [pc |-> "idle", mode |-> "none", update_metrics |-> FALSE,
              read |-> FALSE, mysql_count |-> 0, mongo_count |-> 0,
              raised |-> FALSE, ret |-> NoReturn, verdict |-> "none",
              gauges |-> NoGauges, clock |-> 0,
              uri_set |-> TRUE, opened |-> {}, open |-> {}]

Pipeline == <<service_requests, ingestion_log, mongo_docs, mongo_sync_log, ld, sy,
              last_load, last_sync, fully_applied, last_batch, sync_runs, nz, co>>

\* __main__ (lines 124-137): the MONGODB_URI check and the choice of the mode;
\* start_http_server (line 110) raises when the port is taken
CheckMain(uri_set, metrics_server, port_free) ==
    /\ vc.pc \in {"idle", "done", "stopped"}
    /\ vc' = IF ~uri_set \/ (metrics_server /\ ~port_free)
             THEN [IdleCheck EXCEPT !.pc = "done", !.raised = TRUE,
                                    !.uri_set = uri_set]
             ELSE [IdleCheck EXCEPT !.pc = "check",
                                    !.mode = IF metrics_server THEN "poll" ELSE "oneshot",
                                    !.update_metrics = metrics_server]
    /\ UNCHANGED Pipeline

\* where a call of validate_counts can end: after both stores answered, at
\* pymysql.connect (line 39), at the COUNT query (lines 48-50) or at
\* count_documents (line 57)
CheckOutcomes == {"ok", "mysql_connect", "mysql_query", "mongo_query"}

\* lines 38-58 and the rest of validate_counts, on the process record c:
\* the MySQL connection is opened, read and closed before MONGO_URI is looked
\* at (line 54, a TypeError when it is None); the two close() calls (lines 51
\* and 58) are plain statements after the queries
Check(c, uri_set, outcome, mysql_count, mongo_count) ==
    LET fail(opened, left) ==
            [c EXCEPT !.read = FALSE, !.raised = TRUE, !.ret = NoReturn,
                      !.verdict = "error", !.clock = 1 - @, !.uri_set = uri_set,
                      !.opened = @ \cup opened, !.open = @ \cup left]
    IN  IF outcome = "mysql_connect" THEN fail({}, {})
        ELSE IF outcome = "mysql_query" THEN fail({"mysql"}, {"mysql"})
        ELSE IF ~uri_set THEN fail({"mysql"}, {})
        ELSE IF outcome = "mongo_query" THEN fail({"mysql", "mongo"}, {"mongo"})
        ELSE LET r == validate_counts(mysql_count, mongo_count, c.update_metrics,
                                      c.gauges, 1 - c.clock)
             IN  [c EXCEPT !.read = TRUE, !.mysql_count = mysql_count,
                           !.mongo_count = mongo_count, !.raised = r.raised,
                           !.ret = r.ret, !.verdict = r.verdict, !.gauges = r.gauges,
                           !.clock = 1 - @, !.uri_set = uri_set,
                           !.opened = @ \cup {"mysql", "mongo"}]

\* the result of one call of validate_counts by the process started through
\* __main__, where MONGO_URI is known to be set (lines 127-128)
Checked(outcome, mysql_count, mongo_count) ==
    Check(vc, TRUE, outcome, mysql_count, mongo_count)

\* validate_counts called as a function (line 28), without the check of
\* __main__: MONGO_URI is whatever the environment held at import (line 16)
CheckCall(uri_set, update_metrics, outcome, mysql_count, mongo_count) ==
    /\ vc.pc \in {"idle", "done", "stopped"}
    /\ vc' = Check([IdleCheck EXCEPT !.pc = "done", !.mode = "call",
                                     !.update_metrics = update_metrics],
                   uri_set, outcome, mysql_count, mongo_count)
    /\ UNCHANGED Pipeline

\* line 137: the one-shot check; an exception ends the process
CheckOnce(outcome, mysql_count, mongo_count) ==
    /\ vc.pc = "check" /\ vc.mode = "oneshot"
    /\ vc' = [Checked(outcome, mysql_count, mongo_count) EXCEPT !.pc = "done"]
    /\ UNCHANGED Pipeline

\* a poll loop that lets the exception of a check out of the loop
PollCheck_lets_out(outcome, mysql_count, mongo_count) ==
    /\ vc.pc = "check" /\ vc.mode = "poll"
    /\ LET c == Checked(outcome, mysql_count, mongo_count)
       IN  vc' = [c EXCEPT !.pc = IF c.raised THEN "done" ELSE "sleep"]
    /\ UNCHANGED Pipeline

\* lines 114-118: one check of the poll loop; except Exception prints and goes on
PollCheck(outcome, mysql_count, mongo_count) ==
    /\ vc.pc = "check" /\ vc.mode = "poll"
    /\ vc' = [Checked(outcome, mysql_count, mongo_count) EXCEPT !.pc = "sleep"]
    /\ UNCHANGED Pipeline

\* line 119: time.sleep(interval) returns
PollSleep ==
    /\ vc.pc = "sleep" /\ vc.mode = "poll"
    /\ vc' = [vc EXCEPT !.pc = "check"]
    /\ UNCHANGED Pipeline

\* lines 120-121: KeyboardInterrupt, in a check or in the sleep
PollInterrupt ==
    /\ vc.pc \in {"check", "sleep"} /\ vc.mode = "poll"
    /\ vc' = [vc EXCEPT !.pc = "stopped"]
    /\ UNCHANGED Pipeline

-----------------------------------------------------------------------------
(* scripts/concurrent_ops.py: the driver and its three worker threads.     *)
(* Each statement of a worker is one step; the connections are autocommit. *)

WorkerOps == 1   \* n: the statements of a worker; 30 in the source

update_limit == 10

Workers == {"mysql_updates", "mysql_queries", "mongo_queries"}

\* random.choice(["MANHATTAN", "BROOKLYN", "QUEENS"])
Boroughs == {"MANHATTAN", "BROOKLYN", "QUEENS"}

IdleWorker == [pc |-> "none", n |-> 0, conn |-> FALSE]

IdleDriver ==
    [pc |-> "idle", raised |-> FALSE, completed |-> FALSE,
     w |-> [k \in Workers |-> IdleWorker]]

\* an update that blanks the borough of the rows it matches
worker_update_blanks(rows, rand_borough) ==
    {IF r.borough = rand_borough THEN [r EXCEPT !.borough = NoneS] ELSE r : r \in rows}

\* UPDATE service_requests SET borough = borough WHERE borough = %s LIMIT 10
worker_update(rows, rand_borough) ==
    LET matched == ByKey({r \in rows : r.borough = rand_borough})
        hit == {matched[i] : i \in 1..(IF Len(matched) < update_limit
                                       THEN Len(matched) ELSE update_limit)}
    IN  {IF r \in hit THEN [r EXCEPT !.borough = r.borough] ELSE r : r \in rows}

Stores == <<service_requests, ingestion_log, mongo_docs, mongo_sync_log>>

Others == <<ld, sy, last_load, last_sync, fully_applied, last_batch, sync_runs, vc, nz>>

\* run_concurrent_ops, lines 89-99: the MONGODB_URI test, then the threads
DriverStart(uri_set) ==
    /\ co.pc = "idle"
    /\ co' = IF ~uri_set
             THEN [IdleDriver EXCEPT !.pc = "done", !.raised = TRUE]
             ELSE [IdleDriver EXCEPT
                      !.pc = "running",
                      !.w = [k \in Workers |-> [pc |-> "start", n |-> WorkerOps,
                                                conn |-> FALSE]]]
    /\ UNCHANGED <<Stores, Others>>

\* get_mysql_conn() or get_mongo_coll(), the first statement of a worker; an
\* exception ends the thread
WorkerConnect(k, ok) ==
    /\ co.pc = "running" /\ co.w[k].pc = "start"
    /\ co' = IF ok THEN [co EXCEPT !.w[k].pc = "loop", !.w[k].conn = TRUE]
             ELSE [co EXCEPT !.w[k].pc = "done"]
    /\ UNCHANGED <<Stores, Others>>

\* one turn of the loop of worker_mysql_updates (lines 42-54); an exception
\* ends the thread before conn.close()
WorkerMysqlUpdates(rand_borough, ok) ==
    /\ co.pc = "running"
    /\ co.w["mysql_updates"].pc = "loop" /\ co.w["mysql_updates"].n > 0
    /\ IF ok
       THEN /\ service_requests' = worker_update(service_requests, rand_borough)
            /\ co' = [co EXCEPT !.w["mysql_updates"].n = @ - 1]
       ELSE /\ co' = [co EXCEPT !.w["mysql_updates"].pc = "done"]
            /\ UNCHANGED service_requests
    /\ UNCHANGED <<ingestion_log, mongo_docs, mongo_sync_log, Others>>

\* one turn of the loop of worker_mysql_queries (lines 61-71) or of
\* worker_mongo_queries (lines 78-84): the result is read and dropped
WorkerQuery(k, ok) ==
    /\ k \in {"mysql_queries", "mongo_queries"}
    /\ co.pc = "running" /\ co.w[k].pc = "loop" /\ co.w[k].n > 0
    /\ co' = IF ok THEN [co EXCEPT !.w[k].n = @ - 1]
             ELSE [co EXCEPT !.w[k].pc = "done"]
    /\ UNCHANGED <<Stores, Others>>

\* the end of a worker: conn.close() (lines 54 and 72); worker_mongo_queries
\* has no close for its MongoClient
WorkerEnd(k) ==
    /\ co.pc = "running" /\ co.w[k].pc = "loop" /\ co.w[k].n = 0
    /\ co' = [co EXCEPT !.w[k].pc = "done", !.w[k].conn = (k = "mongo_queries")]
    /\ UNCHANGED <<Stores, Others>>

\* lines 100-103: join() on every thread, then the completion message
DriverJoin ==
    /\ co.pc = "running"
    /\ \A k \in Workers : co.w[k].pc = "done"
    /\ co' = [co EXCEPT !.pc = "done", !.completed = TRUE]
    /\ UNCHANGED <<Stores, Others>>

-----------------------------------------------------------------------------
(* Runs one at a time.  Spec is the loader run again and again over the    *)
(* extract files, any write of which may fail.  SpecPipeline adds the sync *)
(* runs, over a primary store that PipelineFiles were loaded into.         *)

Limits == {0, 1}
PipelineFiles == {FileA, FileB, FileN}

Init ==
    /\ service_requests = {}
    /\ ingestion_log = {}
    /\ mongo_docs = {}
    /\ mongo_sync_log = <<>>
    /\ ld = [p \in Loaders |-> IdleLoader]
    /\ sy = [p \in Syncers |-> IdleSync]
    /\ sync_runs = 0
    /\ vc = IdleCheck
    /\ nz = NoChunk
    /\ co = IdleDriver
    /\ last_load = NoLoad
    /\ last_sync = NoSync
    /\ fully_applied = {}
    /\ last_batch = NoBatch

Next ==
    \E p \in SeqProcs :
        \/ \E f \in Files : NothingRuns /\ IngestStart(p, f)
        \/ IngestGate(p)
        \/ IngestCleanup(p)
        \/ IngestChunk(p, TRUE)
        \/ IngestFinish(p, TRUE)

Spec == Init /\ [][Next]_vars

NextPipeline ==
    \E p \in SeqProcs :
        \/ \E f \in PipelineFiles : NothingRuns /\ IngestStart(p, f)
        \/ IngestGate(p)
        \/ IngestCleanup(p)
        \/ IngestChunk(p, FALSE)
        \/ IngestFinish(p, FALSE)
        \/ \E f \in SyncNames, limit \in Limits, uri_set \in BOOLEAN, now \in Years :
              NothingRuns /\ SyncStart(p, f, limit, uri_set, now)
        \/ SyncLogStart(p)
        \/ SyncCleanup(p)
        \/ SyncFetch(p)
        \/ SyncBatch(p)
        \/ SyncFinish(p)

SpecPipeline == Init /\ [][NextPipeline]_vars

\* Two loader processes at once, one file each, then two sync processes at
\* once: the steps of the two runs interleave in every order.  Each step is
\* one transaction.
ConcurrentFiles == {FileA, FileC, FileD}
ConcurrentNames == {FileA, FileC}

NextConcurrent ==
    \/ \E p \in Loaders :
          \/ \E f \in ConcurrentFiles :
                /\ ld[p].pc = "idle" /\ sync_runs = 0
                /\ IngestStart(p, f)
          \/ IngestGate(p)
          \/ IngestCleanup(p)
          \/ IngestChunk(p, FALSE)
          \/ IngestFinish(p, FALSE)
    \/ \E p \in Syncers :
          \/ \E f \in ConcurrentNames, limit \in Limits, now \in Years :
                /\ sy[p].pc = "idle" /\ \A q \in Loaders : ~LoaderActive(q)
                /\ SyncStart(p, f, limit, TRUE, now)
          \/ SyncLogStart(p)
          \/ SyncCleanup(p)
          \/ SyncFetch(p)
          \/ SyncBatch(p)
          \/ SyncFinish(p)

SpecConcurrent == Init /\ [][NextConcurrent]_vars

\* Two loader processes at once, each run once, over tables that are empty or
\* hold the rows and the ledger entry of an earlier load of FileB; any batch
\* and any final step may fail.
RaceFiles == {FileA, FileD}

Preloaded == {Tables({}, {}), FullLoad(Tables({}, {}), FileB)}

InitRace ==
    /\ \E pre \in Preloaded :
          /\ service_requests = pre.service_requests
          /\ ingestion_log = pre.ingestion_log
    /\ mongo_docs = {}
    /\ mongo_sync_log = <<>>
    /\ ld = [p \in Loaders |-> IdleLoader]
    /\ sy = [p \in Syncers |-> IdleSync]
    /\ sync_runs = 0
    /\ vc = IdleCheck
    /\ nz = NoChunk
    /\ co = IdleDriver
    /\ last_load = NoLoad
    /\ last_sync = NoSync
    /\ fully_applied = {}
    /\ last_batch = NoBatch

NextRace ==
    \E p \in Loaders :
        \/ \E f \in RaceFiles : ld[p].pc = "idle" /\ IngestStart(p, f)
        \/ IngestGate(p)
        \/ IngestCleanup(p)
        \/ IngestChunk(p, TRUE)
        \/ IngestFinish(p, TRUE)

SpecRace == InitRace /\ [][NextRace]_vars

\* The loader runs of one file and one sync run of its window, with the
\* traffic of concurrent_ops.py between their steps.
TrafficFiles == {FileA}

NextTraffic ==
    \/ \E p \in SeqProcs :
          \/ \E f \in TrafficFiles : NothingRuns /\ IngestStart(p, f)
          \/ IngestGate(p)
          \/ IngestCleanup(p)
          \/ IngestChunk(p, FALSE)
          \/ IngestFinish(p, FALSE)
          \/ \E f \in TrafficFiles, now \in Years :
                NothingRuns /\ sync_runs = 0 /\ SyncStart(p, f, 0, TRUE, now)
          \/ SyncLogStart(p)
          \/ SyncCleanup(p)
          \/ SyncFetch(p)
          \/ SyncBatch(p)
          \/ SyncFinish(p)
    \/ \E uri_set \in BOOLEAN : DriverStart(uri_set)
    \/ \E k \in Workers, ok \in BOOLEAN : WorkerConnect(k, ok) \/ WorkerQuery(k, ok)
    \/ \E rand_borough \in Boroughs, ok \in BOOLEAN : WorkerMysqlUpdates(rand_borough, ok)
    \/ \E k \in Workers : WorkerEnd(k)
    \/ DriverJoin

SpecTraffic == Init /\ [][NextTraffic]_vars

\* The Record Normalizer alone: clean_chunk over every chunk of at most MaxLen
\* of the rows of NormalizerRows.
MaxLen == 3

NormalizerRows ==
    {Raw(1, Date(2023, 0), "a", "QUEENS", 111, 407, 0 - 740),
     Raw(1, Date(2023, 1), "b", "QUEENS", 111, 405, 0 - 737),
     Raw(2, Date(2023, 0), "c", NoneS, 104, 409, 0 - 743),
     Raw(None, Date(2023, 0), "d", "QUEENS", 111, 407, 0 - 740),
     Raw(2, BadText, "e", "QUEENS", 111, 407, 0 - 740),
     Raw(2, None, "f", "QUEENS", 111, 407, 0 - 740),
     Raw(2, Date(2023, 1), "g", "BRONX", 104, 0, 0),
     Raw(2, Date(2023, 1), "h", "BRONX", 104, None, None),
     Raw(1, Date(2023, 1), "i", "QUEENS", 111, 407, BadText)}

RECURSIVE ChunksOf(_)
ChunksOf(n) ==
    IF n = 0 THEN {<<>>}
    ELSE ChunksOf(n - 1)
            \cup {Append(c, r) : c \in {q \in ChunksOf(n - 1) : Len(q) = n - 1},
                                 r \in NormalizerRows}

InitNormalizer ==
    /\ service_requests = {}
    /\ ingestion_log = {}
    /\ mongo_docs = {}
    /\ mongo_sync_log = <<>>
    /\ ld = [p \in Loaders |-> IdleLoader]
    /\ sy = [p \in Syncers |-> IdleSync]
    /\ sync_runs = 0
    /\ vc = IdleCheck
    /\ co = IdleDriver
    /\ last_load = NoLoad
    /\ last_sync = NoSync
    /\ fully_applied = {}
    /\ last_batch = NoBatch
    /\ \E chunk \in ChunksOf(MaxLen) : nz = [NoChunk EXCEPT !.pc = "read", !.chunk = chunk]

NextNormalizer == CleanChunk

SpecNormalizer == InitNormalizer /\ [][NextNormalizer]_vars

\* the consistency check, one-shot or polling, over stores of any size
NextCheck ==
    \/ \E uri_set \in BOOLEAN, metrics_server \in BOOLEAN, port_free \in BOOLEAN :
          CheckMain(uri_set, metrics_server, port_free)
    \/ \E outcome \in CheckOutcomes, mysql_count \in Counts, mongo_count \in Counts :
          \/ CheckOnce(outcome, mysql_count, mongo_count)
          \/ PollCheck(outcome, mysql_count, mongo_count)
    \/ \E uri_set \in BOOLEAN, update_metrics \in BOOLEAN, outcome \in CheckOutcomes,
          mysql_count \in Counts, mongo_count \in Counts :
          CheckCall(uri_set, update_metrics, outcome, mysql_count, mongo_count)
    \/ PollSleep
    \/ PollInterrupt

SpecCheck == Init /\ [][NextCheck]_vars

\* time.sleep returns, and a check returns or raises
FairCheck ==
    /\ WF_vars(PollSleep)
    /\ WF_vars(\E outcome \in CheckOutcomes, mysql_count \in Counts, mongo_count \in Counts :
                  PollCheck(outcome, mysql_count, mongo_count))

SpecPoller == SpecCheck /\ FairCheck

-----------------------------------------------------------------------------
(* Properties of the loader, checked under Spec *)

InLedger(log, f) == \E e \in log : e.dataset_file = f

\* C1: a run of a file whose last run succeeded is stopped by the ledger gate:
\* it never reaches the cleanup or the chunk loop, it does no delete, no upsert
\* and no ledger write, and it leaves the rows (hence their count) and the
\* ledger as the first run left them.
C1_IdempotentReload ==
    \A p \in Loaders :
        ld[p].after_success =>
            /\ ld[p].pc \in {"gate", "done"}
            /\ ld[p].pc = "done" => ld[p].result = "skipped"
            /\ ld[p].ops = {}
            /\ service_requests = ld[p].table0
            /\ Cardinality(service_requests) = Cardinality(ld[p].table0)
            /\ ingestion_log = ld[p].log0

C1_Witness ==
    \E p \in Loaders :
        /\ ld[p].after_success /\ ld[p].pc = "done" /\ ld[p].result = "skipped"
        /\ service_requests # {}

\* C4: insert_batch is atomic: when a write of the batch fails the call raises
\* and the connection is rolled back to the tables as they were before the call;
\* when none fails the call returns with every row of the batch committed.
C4_BatchAtomic ==
    last_batch.called =>
        IF last_batch.failAt # 0
        THEN /\ last_batch.raised
             /\ last_batch.conn.committed = last_batch.before
             /\ last_batch.conn.working = last_batch.before
        ELSE /\ ~last_batch.raised
             /\ last_batch.conn.working = last_batch.conn.committed
             /\ \A i \in 1..Len(last_batch.df) :
                    last_batch.df[i] \in last_batch.conn.committed.service_requests

C4_Witness ==
    /\ last_batch.called /\ last_batch.raised /\ last_batch.failAt >= 2
    /\ last_batch.df[1] \notin last_batch.before.service_requests

\* C5: a load run is all-or-nothing: after a failed run no row that an earlier
\* chunk of the run applied is left in the store (unless it was there before
\* the run), and after a successful run every applied key is in the store.
C5_FileAllOrNothing ==
    \A p \in Loaders :
        /\ (ld[p].result = "failed" /\ ld[p].failed_chunks # {}) =>
              \A r \in ld[p].applied : r \in service_requests => r \in ld[p].table0
        /\ ld[p].result = "success" =>
              \A r \in ld[p].applied :
                  \E q \in service_requests :
                      q.unique_key = r.unique_key /\ q \in ld[p].applied

\* C6: a failed run leaves no ledger entry for its file; the next run of the
\* file passes the gate, clears the window and goes through every chunk, and
\* when it succeeds the tables are those of one failure-free run made from the
\* state the failed run started in.
C6_RerunAfterFailure ==
    \A p \in Loaders :
        /\ (ld[p].result = "failed" /\ ~InLedger(ld[p].log0, ld[p].file))
              => ~InLedger(ingestion_log, ld[p].file)
        /\ (ld[p].rerun /\ ld[p].pc = "done") => ld[p].result # "skipped"
        /\ (ld[p].rerun /\ ld[p].result = "success") =>
              /\ parse_date_range_from_filename(ld[p].file).ok => "delete" \in ld[p].ops
              /\ ld[p].chunk_num = Len(CSV(ld[p].file))
              /\ Tables(service_requests, ingestion_log) = FullLoad(ld[p].base, ld[p].file)

C6_Witness ==
    \E p \in Loaders :
        /\ ld[p].rerun /\ ld[p].result = "success"
        /\ ld[p].table0 # ld[p].base.service_requests
        /\ ld[p].base.service_requests # {}

\* C7: the ledger holds an entry for a file only if some run applied every
\* chunk of that file without a failure; a skipped or failed run writes none.
C7_LedgerInvariant ==
    /\ \A e \in ingestion_log : e.dataset_file \in fully_applied
    /\ \A p \in Loaders :
          ld[p].result \in {"skipped", "failed"} =>
              "ledger" \notin ld[p].ops /\ ingestion_log = ld[p].log0

C7_Witness ==
    \E p \in Loaders :
        /\ ld[p].result = "failed" /\ ld[p].chunk_num = Len(CSV(ld[p].file))
        /\ ingestion_log # {}

-----------------------------------------------------------------------------
(* Properties of the sync, checked under SpecPipeline *)

InWindow(docs, run) == DocsIn(docs, run.start_date, run.end_date)
OutOfWindow(docs, run) == docs \ InWindow(docs, run)

\* the documents that mirror the primary rows of the run's window
Mirror(rows, run) ==
    LET got == fetch_mysql_rows(rows, run.start_date, run.end_date, 0)
    IN  {Doc(got[k]) : k \in 1..Len(got)}

\* C2: after an uncapped sync run ends with success, and while the primary
\* store is as the run read it, the documents dated in the window are exactly
\* the documents of the primary rows dated in the window.
C2_RoundTrip ==
    \A p \in Syncers :
        (sy[p].result = "success" /\ sy[p].limit = 0
         /\ service_requests = sy[p].primary0)
            => InWindow(mongo_docs, sy[p]) = Mirror(service_requests, sy[p])

\* C3 as stated: a sync run leaves every document dated outside its window as
\* it was, and adds no document dated outside its window.
C3_WindowIsolation ==
    \A p \in Syncers :
        sy[p].pc # "idle" => OutOfWindow(mongo_docs, sy[p]) = OutOfWindow(sy[p].docs0, sy[p])

\* C3 amended: a sync run deletes no document dated outside its window and
\* adds none there; it changes such a document only when the document's _id is
\* the unique_key of a primary row dated in the window.
C3_WindowIsolationByKey ==
    \A p \in Syncers :
        sy[p].pc # "idle" =>
            /\ \A d \in OutOfWindow(sy[p].docs0, sy[p]) :
                  \/ d \in mongo_docs
                  \/ \E m \in Mirror(sy[p].primary0, sy[p]) : m._id = d._id
            /\ \A d \in OutOfWindow(mongo_docs, sy[p]) : d \in sy[p].docs0

C3_Witness ==
    \E p \in Syncers :
        /\ sy[p].result = "success"
        /\ \E d \in OutOfWindow(sy[p].docs0, sy[p]) :
              d \in mongo_docs /\ \A m \in Mirror(sy[p].primary0, sy[p]) : m._id # d._id
        /\ mongo_docs # sy[p].docs0

\* C8: a successful sync of the window and cap that the last sync run also
\* synced with success, the primary store not having changed in between,
\* leaves the set (hence the count) of documents dated in the window unchanged.
C8_SyncIdempotent ==
    \A p \in Syncers :
        (sy[p].rerun /\ sy[p].result = "success") =>
            /\ InWindow(mongo_docs, sy[p]) = InWindow(sy[p].docs0, sy[p])
            /\ Cardinality(InWindow(mongo_docs, sy[p]))
                  = Cardinality(InWindow(sy[p].docs0, sy[p]))

C8_Witness ==
    \E p \in Syncers :
        /\ sy[p].rerun /\ sy[p].result = "success"
        /\ InWindow(mongo_docs, sy[p]) # {}

\* C9: the steps of a sync run come in the order ledger entry, window delete,
\* read of the primary rows, upserts; the collection differs from what the run
\* found only once the run's running entry is in the ledger.
C9_ProtocolOrder ==
    \A p \in Syncers :
        LET t == sy[p].trace
        IN  sy[p].pc # "idle" =>
            /\ \A k \in 1..Len(t) :
                  t[k] = (IF k = 1 THEN "log" ELSE IF k = 2 THEN "delete"
                          ELSE IF k = 3 THEN "read" ELSE "upsert")
            /\ (t # <<>> \/ mongo_docs # sy[p].docs0) =>
                  /\ sy[p].log_id \in 1..Len(mongo_sync_log)
                  /\ mongo_sync_log[sy[p].log_id].window_start = sy[p].start_date
                  /\ mongo_sync_log[sy[p].log_id].window_end = sy[p].end_date

C9_Witness ==
    \E p \in Syncers :
        sy[p].trace = <<"log", "delete", "read", "upsert", "upsert">>

\* C10: the entry a run opened says success only if the run applied every
\* batch of the rows it read without an error; it says no_data exactly when the
\* run read zero rows, and the run then ended without raising and wrote no
\* document; it still says running when the run aborted.
C10_LedgerStatus ==
    \A p \in Syncers :
        sy[p].log_id # 0 =>
            LET e == mongo_sync_log[sy[p].log_id]
            IN  /\ e.status = "success" =>
                      /\ sy[p].result = "success"
                      /\ sy[p].failed_batches = {}
                      /\ sy[p].rows_read = Len(sy[p].docs)
                      /\ \A k \in 1..Len(sy[p].docs) : sy[p].docs[k] \in mongo_docs
                /\ e.status = "no_data" <=> sy[p].rows_read = 0
                /\ e.status = "no_data" =>
                      /\ sy[p].result = "no_data"
                      /\ "upsert" \notin {sy[p].trace[k] : k \in 1..Len(sy[p].trace)}
                      /\ mongo_docs = cleanup_previous_mongo(sy[p].docs0, sy[p].start_date,
                                                             sy[p].end_date)
                /\ sy[p].result = "failed" => e.status = "running"

C10_Witness ==
    \E p \in Syncers :
        /\ sy[p].log_id # 0 /\ sy[p].result = "failed" /\ sy[p].failed_batches # {}
        /\ mongo_docs # sy[p].docs0
        /\ mongo_sync_log[sy[p].log_id].status = "running"

\* the number of bulk writes of a run that applied at least one operation
Upserts(run) == Cardinality({k \in 1..Len(run.trace) : run.trace[k] = "upsert"})

\* C11: when the bulk write of the batch at offset i fails, the run ends
\* there with the failure raised: that batch is the only failed one and is not
\* written again, no document of a later batch is written, and every document
\* of the batches before it is in the collection.
C11_BatchFailure ==
    \A p \in Syncers :
        sy[p].failed_batches # {} =>
            /\ sy[p].pc = "done" /\ sy[p].result = "failed"
            /\ sy[p].failed_batches = {sy[p].i}
            /\ Upserts(sy[p]) <= (sy[p].i \div batch_size) + 1
            /\ \A k \in 1..sy[p].i : sy[p].docs[k] \in mongo_docs
            /\ \A k \in (sy[p].i + batch_size + 1)..Len(sy[p].docs) :
                  sy[p].docs[k] \in mongo_docs => sy[p].docs[k] \in sy[p].docs0

C11_Witness ==
    \E p \in Syncers :
        /\ sy[p].failed_batches # {} /\ sy[p].i > 0
        /\ \E k \in 1..sy[p].i : sy[p].docs[k] \notin sy[p].docs0
        /\ \A k \in 1..sy[p].i : sy[p].docs[k] \in mongo_docs

\* C12: the entry of a successful sync run records as rows_synced the number
\* of primary rows the run read, which is the number of documents it applied,
\* whether or not those documents were already in the collection.
C12_RowsSynced ==
    \A p \in Syncers :
        sy[p].result = "success" =>
            /\ mongo_sync_log[sy[p].log_id].rows_synced = sy[p].rows_read
            /\ sy[p].rows_read = Len(sy[p].docs)

\* the step of process p is its ledger step (log_sync_start returned)
LedgerStep(p) == sy[p].pc = "log" /\ sy'[p].pc = "cleanup"

JustCleared(p) ==
    /\ ld[p].pc = "chunks" /\ ld[p].chunk_num = 0
    /\ "delete" \in ld[p].ops

\* C14: right after the window clear of a run on a file of year y, the table
\* holds exactly the rows the run found whose created_date is before the first
\* instant of y or at or after the first instant of y + 1, and the ingestion
\* ledger is as the run found it.
C14_ClearWindow ==
    \A p \in Loaders :
        JustCleared(p) =>
            LET y == year_match(ld[p].file)
            IN  /\ service_requests =
                      {r \in ld[p].table0 : r.created_date < Date(y, 0)
                                            \/ r.created_date >= Date(y + 1, 0)}
                /\ ingestion_log = ld[p].log0

C14_Witness ==
    \E p \in Loaders :
        /\ JustCleared(p)
        /\ \E r \in ld[p].table0 :
              r.created_date = Date(year_match(ld[p].file), 0)
              /\ r \notin service_requests
        /\ \E r \in ld[p].table0 :
              r.created_date = Date(year_match(ld[p].file) + 1, 0)
              /\ r \in service_requests
        /\ ld[p].log0 # {}

\* the keys of the rows of a batch
BatchKeys(df) == {df[i].unique_key : i \in 1..Len(df)}

\* C15: after insert_batch returns, the table holds for every key of the batch
\* exactly one row, equal to the batch's row in every field, and the rows of
\* all other keys are those the table held before the call.
C15_UpsertSemantics ==
    (last_batch.called /\ ~last_batch.raised) =>
        LET after == last_batch.conn.committed.service_requests
            before == last_batch.before.service_requests
            df == last_batch.df
        IN  /\ \A i \in 1..Len(df) :
                  {r \in after : r.unique_key = df[i].unique_key} = {df[i]}
            /\ {r \in after : r.unique_key \notin BatchKeys(df)}
                  = {r \in before : r.unique_key \notin BatchKeys(df)}
            /\ service_requests = after

C15_Witness ==
    /\ last_batch.called /\ ~last_batch.raised
    /\ \E i \in 1..Len(last_batch.df) :
          \E r \in last_batch.before.service_requests :
              r.unique_key = last_batch.df[i].unique_key /\ r # last_batch.df[i]
    /\ \E i \in 1..Len(last_batch.df) :
          \A r \in last_batch.before.service_requests :
              r.unique_key # last_batch.df[i].unique_key
    /\ \E r \in last_batch.before.service_requests :
          r.unique_key \notin BatchKeys(last_batch.df)

-----------------------------------------------------------------------------
(* Properties of the consistency check, checked under SpecCheck *)

\* a one-shot check has read both counts and ended
OneShotDone == vc.mode = "oneshot" /\ vc.pc = "done" /\ vc.read

ExactlyOneZero(a, b) == (a = 0 /\ b # 0) \/ (a # 0 /\ b = 0)

\* C16: a one-shot check raises exactly when the mismatch of the two counts
\* exceeds 1000 or exactly one count is zero; equal counts, both zero included,
\* are answered (count, count, 0) and classified in sync.
C16_OneShot ==
    OneShotDone =>
        LET mismatch == Abs(vc.mysql_count - vc.mongo_count)
        IN  /\ vc.raised <=> (mismatch > 1000
                               \/ ExactlyOneZero(vc.mysql_count, vc.mongo_count))
            /\ vc.mysql_count = vc.mongo_count =>
                  /\ vc.ret = <<vc.mysql_count, vc.mongo_count, 0>>
                  /\ vc.verdict = "perfect"
            /\ ~vc.raised => vc.ret = <<vc.mysql_count, vc.mongo_count, mismatch>>

\* C17: a check of the poll loop that read the two counts does not raise; it
\* sets the mismatch gauge to the absolute difference of the counts and the
\* in-sync gauge to 1 when that difference is 0 and to 0 otherwise.
C17_PollClassification ==
    (vc.mode = "poll" /\ vc.read) =>
        LET mismatch == Abs(vc.mysql_count - vc.mongo_count)
        IN  /\ ~vc.raised
            /\ vc.ret = <<vc.mysql_count, vc.mongo_count, mismatch>>
            /\ vc.gauges.mysql_row_count = vc.mysql_count
            /\ vc.gauges.mongo_doc_count = vc.mongo_count
            /\ vc.gauges.sync_mismatch_count = mismatch
            /\ vc.gauges.sync_status = (IF mismatch = 0 THEN 1 ELSE 0)

C17_Witness ==
    /\ vc.mode = "poll" /\ vc.read /\ vc.pc = "sleep"
    /\ vc.mysql_count = 10000 /\ vc.mongo_count = 9500
    /\ vc.gauges.sync_status = 0 /\ vc.gauges.sync_mismatch_count = 500
    /\ ~vc.raised

\* C18 (under SpecPoller): a check of the poll loop, whether it returned or
\* raised, is followed by the sleep and the sleep by the next check; the loop
\* is left at a KeyboardInterrupt only.
C18_PollerLiveness ==
    /\ [][(vc.mode = "poll" /\ vc.pc \in {"check", "sleep"}) =>
              \/ vc'.mode = "poll" /\ vc'.pc \in {"check", "sleep"}
              \/ vc' = [vc EXCEPT !.pc = "stopped"]]_vars
    /\ (vc.mode = "poll" /\ vc.pc = "check") ~> (vc.pc \in {"sleep", "stopped"})
    /\ (vc.mode = "poll" /\ vc.pc = "sleep") ~> (vc.pc \in {"check", "stopped"})

C18_Witness ==
    /\ vc.mode = "poll" /\ vc.pc = "check"
    /\ vc.raised /\ vc.verdict = "error"
    /\ vc.gauges # NoGauges

-----------------------------------------------------------------------------
(* Properties of concurrent runs, checked under SpecConcurrent *)

\* one run of ingest_mysql on f with nothing else running and nothing failing
SeqLoad(tables, f) ==
    IF log_ingestion_start(tables.ingestion_log, f) THEN tables ELSE FullLoad(tables, f)

\* the cleaned rows of all chunks of f
RowsOf(f) ==
    UNION {{clean_chunk(CSV(f)[n]).df[i] : i \in 1..Len(clean_chunk(CSV(f)[n]).df)}
              : n \in 1..Len(CSV(f))}

KeysOf(f) == {r.unique_key : r \in RowsOf(f)}

WindowsDisjoint(f, g) ==
    /\ year_match(f) # None /\ year_match(g) # None
    /\ year_match(f) # year_match(g)

\* every row of f is dated in the window of f's name
InOwnWindow(f) ==
    \A r \in RowsOf(f) : /\ r.created_date >= Date(year_match(f), 0)
                         /\ r.created_date < Date(year_match(f) + 1, 0)

\* both loaders ran files of disjoint windows from the same tables, and ended
LoadedTogether(p, q) ==
    /\ p # q
    /\ ld[p].pc = "done" /\ ld[q].pc = "done"
    /\ ld[p].result \in {"success", "skipped"} /\ ld[q].result \in {"success", "skipped"}
    /\ ld[p].table0 = ld[q].table0 /\ ld[p].log0 = ld[q].log0
    /\ WindowsDisjoint(ld[p].file, ld[q].file)

\* the tables are those of the two runs one after the other, in some order
AsOneAfterTheOther(p, q) ==
    LET t0 == Tables(ld[p].table0, ld[p].log0)
    IN  Tables(service_requests, ingestion_log)
            \in {SeqLoad(SeqLoad(t0, ld[p].file), ld[q].file),
                 SeqLoad(SeqLoad(t0, ld[q].file), ld[p].file)}

\* one run of sync_to_mongo on a window with nothing else running and nothing
\* failing: the collection it leaves and the ledger entry it closes
SeqSync(docs, rows, run) ==
    LET got == fetch_mysql_rows(rows, run.start_date, run.end_date, run.limit)
        batch == [k \in 1..Len(got) |-> Doc(got[k])]
        cleared == cleanup_previous_mongo(docs, run.start_date, run.end_date)
        wrote == bulk_write(cleared, batch, 1..Len(batch))
    IN  [docs |-> wrote.docs,
         entry |-> [window_start |-> run.start_date, window_end |-> run.end_date,
                    status |-> IF got = <<>> THEN "no_data" ELSE "success",
                    rows_synced |-> wrote.upserted_count + wrote.modified_count]]

SeqSyncs(docs, rows, a, b) ==
    LET first == SeqSync(docs, rows, a)
        second == SeqSync(first.docs, rows, b)
    IN  [docs |-> second.docs, entries |-> {first.entry, second.entry}]

SyncedTogether(p, q) ==
    /\ p # q
    /\ sy[p].pc = "done" /\ sy[q].pc = "done"
    /\ sy[p].result \in {"success", "no_data"} /\ sy[q].result \in {"success", "no_data"}
    /\ sy[p].docs0 = sy[q].docs0
    /\ sy[p].start_date # sy[q].start_date

SyncedAsOneAfterTheOther(p, q) ==
    [docs |-> mongo_docs,
     entries |-> {mongo_sync_log[sy[p].log_id], mongo_sync_log[sy[q].log_id]}]
        \in {SeqSyncs(sy[p].docs0, service_requests, sy[p], sy[q]),
             SeqSyncs(sy[p].docs0, service_requests, sy[q], sy[p])}

\* C19 as stated: two loader runs of files of disjoint windows, and two sync
\* runs of disjoint windows, end in every interleaving with the stores and
\* ledgers of the two runs done one after the other.
C19_DisjointWindows ==
    /\ \A p, q \in Loaders : LoadedTogether(p, q) => AsOneAfterTheOther(p, q)
    /\ \A p, q \in Syncers : SyncedTogether(p, q) => SyncedAsOneAfterTheOther(p, q)

\* C19 amended: the same, for loader runs of files whose rows are all dated in
\* the file's own window and that share no unique_key.
C19_DisjointWindowsOwnRows ==
    /\ \A p, q \in Loaders :
          (/\ LoadedTogether(p, q)
           /\ InOwnWindow(ld[p].file) /\ InOwnWindow(ld[q].file)
           /\ KeysOf(ld[p].file) \cap KeysOf(ld[q].file) = {})
              => AsOneAfterTheOther(p, q)
    /\ \A p, q \in Syncers : SyncedTogether(p, q) => SyncedAsOneAfterTheOther(p, q)

C19_Witness ==
    /\ LoadedTogether(1, 2)
    /\ ld[1].result = "success" /\ ld[2].result = "success"
    /\ InOwnWindow(ld[1].file) /\ InOwnWindow(ld[2].file)
    /\ RowsOf(ld[2].file) \subseteq service_requests
    /\ Cardinality(ingestion_log) = 2

\* the loader p is past the ledger gate and has not ended
PastGate(p) == ld[p].pc \in {"cleanup", "chunks"}

\* C20: the ledger gate is a check and takes no lock: a run past the gate holds
\* no ledger entry of its own, so a second run of the same file passes the gate
\* as well; if the ledger has an entry for the file of a run that is past the
\* gate, another run of that file wrote it after the gate was passed.  (The
\* witness is the race: the entry exists and the run has cleared the rows.)
C20_GateIsNoLock ==
    \A p \in Loaders :
        PastGate(p) =>
            /\ "ledger" \notin ld[p].ops
            /\ ~InLedger(ld[p].log0, ld[p].file)
            /\ InLedger(ingestion_log, ld[p].file) =>
                  \E q \in Loaders \ {p} :
                      /\ ld[q].file = ld[p].file
                      /\ ld[q].result = "success" /\ "ledger" \in ld[q].ops

C20_Witness ==
    \E p \in Loaders : \E q \in Loaders \ {p} :
        /\ ld[p].file = ld[q].file
        /\ ld[q].result = "success" /\ ld[q].applied # {}
        /\ InLedger(ingestion_log, ld[p].file)
        /\ ld[p].pc = "chunks" /\ "delete" \in ld[p].ops
        /\ ld[p].table0 = {} /\ ld[q].table0 = {}
        /\ service_requests = {}

-----------------------------------------------------------------------------
(* Error handling, frames and connections *)

NoYearLoad(p) ==
    ld[p].pc # "idle" /\ ~parse_date_range_from_filename(ld[p].file).ok

\* a sync run of a name that holds no year, past its connections
NoYearSync(p) ==
    /\ sy[p].pc # "idle" /\ sy[p].trace # <<>>
    /\ year_match(sy[p].filename) = None

\* C22 (as stated): a loader run of a name without a year falls back to a
\* default window and applies its window-scoped cleanup to it.
C22_LoaderDefaultWindow ==
    \A p \in Loaders :
        (NoYearLoad(p) /\ ld[p].pc \in {"chunks", "done"}
                       /\ ld[p].result # "skipped")
            => "delete" \in ld[p].ops

\* C22 (amended): a name without a year aborts neither run.  The sync run
\* takes the window of the current year, clears it and syncs the primary rows
\* dated in it.  The loader run has no default window: it skips its cleanup,
\* so that no key it found in the table is removed, and loads every cleaned
\* row of the file whatever its date.
C22_WindowUnresolvable ==
    /\ \A p \in Loaders :
          NoYearLoad(p) =>
              /\ ld[p].result # "failed"
              /\ "delete" \notin ld[p].ops
              /\ \A r \in ld[p].table0 :
                    \E q \in service_requests : q.unique_key = r.unique_key
              /\ ld[p].result = "success" =>
                    KeysOf(ld[p].file) \subseteq {q.unique_key : q \in service_requests}
    /\ \A p \in Syncers :
          NoYearSync(p) =>
              /\ \E now \in Years : /\ sy[p].start_date = DateString(now)
                                    /\ sy[p].end_date = DateString(now + 1)
              /\ (sy[p].pc \in {"fetch", "batches"} \/ sy[p].result = "success") =>
                    \E i \in 1..Len(sy[p].trace) : sy[p].trace[i] = "delete"
              /\ (sy[p].result = "success" /\ sy[p].limit = 0) =>
                    \A m \in Mirror(sy[p].primary0, sy[p]) :
                        \E d \in mongo_docs : d._id = m._id

\* a file without a year was loaded over a table that held rows, and a sync
\* run of a name without a year copied the rows of the current year
C22_Witness ==
    /\ last_load.file = FileN /\ last_load.result = "success"
    /\ \E r \in service_requests : r.unique_key \notin KeysOf(FileN)
    /\ \E p \in Syncers :
          /\ NoYearSync(p) /\ sy[p].result = "success" /\ sy[p].limit = 0
          /\ Mirror(sy[p].primary0, sy[p]) # {}

\* C23: a step of a sync run, on every path (success, no_data, abort), leaves
\* the rows of service_requests and the ingestion ledger of the primary store
\* as they were; the run only reads the primary store.
C23_SyncReadsOnly ==
    [][(sy' # sy) => /\ service_requests' = service_requests
                     /\ ingestion_log' = ingestion_log]_vars

\* a sync run was aborted after it had written to the collection, over a
\* primary store that holds rows and a ledger
C23_Witness ==
    \E p \in Syncers :
        /\ sy[p].result = "failed" /\ sy[p].failed_batches # {}
        /\ mongo_docs # sy[p].docs0
        /\ service_requests # {} /\ ingestion_log # {}

-----------------------------------------------------------------------------
(* Properties of the Record Normalizer, checked under SpecNormalizer *)

\* the chunk read, with its dates parsed and its numerics coerced
Parsed ==
    [i \in 1..Len(nz.chunk) |->
        [nz.chunk[i] EXCEPT !.created_date = Coerce(@), !.latitude = Coerce(@),
                            !.longitude = Coerce(@)]]

\* the positions of the chunk that survive the required-field and the
\* duplicate filters
Candidates == drop_duplicates(Parsed, dropna(Parsed))

InBox(r) ==
    /\ 405 <= r.latitude /\ r.latitude <= 409
    /\ 0 - 743 <= r.longitude /\ r.longitude <= 0 - 737

InCleaned(r) == \E j \in 1..Len(nz.df) : nz.df[j].unique_key = r.unique_key

\* C24: the geofence drops a row only when both coordinates are present and
\* one of them lies outside the box; a row with a null latitude or longitude
\* that has its unique_key and created_date is retained.
C24_Geofence ==
    nz.pc = "cleaned" =>
        \A i \in Candidates :
            /\ ~InCleaned(Parsed[i]) =>
                  /\ Parsed[i].latitude # None /\ Parsed[i].longitude # None
                  /\ ~InBox(Parsed[i])
            /\ (Parsed[i].latitude = None \/ Parsed[i].longitude = None) =>
                  InCleaned(Parsed[i])

\* the positions of the chunk that hold the key k
Occurrences(k) == {i \in 1..Len(nz.chunk) : Parsed[i].unique_key = k}

\* several rows hold the key k, all with a created_date and in-bounds coordinates
Repeated(k) ==
    /\ k # None
    /\ Cardinality(Occurrences(k)) >= 2
    /\ \A i \in Occurrences(k) :
          /\ Parsed[i].created_date # None
          /\ Parsed[i].latitude # None /\ Parsed[i].longitude # None
          /\ InBox(Parsed[i])

Last(k) == CHOOSE i \in Occurrences(k) : \A j \in Occurrences(k) : j <= i

\* the cleaned row has the fields of the parsed row
SameFields(c, r) ==
    /\ c.unique_key = r.unique_key
    /\ c.created_date = r.created_date
    /\ c.descriptor = r.descriptor
    /\ c.borough = (IF r.borough = NoneS THEN infer_borough_from_zip(r.incident_zip)
                    ELSE r.borough)
    /\ c.latitude = r.latitude
    /\ c.longitude = r.longitude

\* C25: when several rows of a batch hold the same unique_key, all with a
\* created_date and in-bounds coordinates, the cleaned batch holds exactly one
\* row of that key, with the fields of the last occurrence in input order.
C25_DedupKeepsLast ==
    nz.pc = "cleaned" =>
        \A k \in {Parsed[i].unique_key : i \in 1..Len(nz.chunk)} :
            Repeated(k) =>
                /\ Cardinality({j \in 1..Len(nz.df) : nz.df[j].unique_key = k}) = 1
                /\ \A j \in 1..Len(nz.df) :
                      nz.df[j].unique_key = k => SameFields(nz.df[j], Parsed[Last(k)])

\* a cleaned chunk in which a key came three times, the first and the last
\* occurrence with different fields
C25_Witness ==
    /\ nz.pc = "cleaned" /\ Len(nz.chunk) = 3 /\ Len(nz.df) = 1
    /\ Repeated(1)
    /\ nz.chunk[1].descriptor # nz.chunk[3].descriptor

\* C26: the stats of a batch are accurate: dropped_required counts the rows
\* removed for a missing unique_key or created_date, dropped_dupes the rows
\* removed as duplicates, nyc_bounds_filtered the rows removed by the geofence,
\* and original = cleaned + dropped_required + dropped_dupes + nyc_bounds_filtered.
C26_StatsAccurate ==
    nz.pc = "cleaned" =>
        /\ nz.stats.dropped_required = Len(nz.chunk) - Cardinality(dropna(Parsed))
        /\ nz.stats.dropped_dupes =
              Cardinality(dropna(Parsed)) - Cardinality(Candidates)
        /\ nz.stats.nyc_bounds_filtered = Cardinality(Candidates) - Len(nz.df)
        /\ nz.stats.original =
              nz.stats.cleaned + nz.stats.dropped_required + nz.stats.dropped_dupes
                  + nz.stats.nyc_bounds_filtered

-----------------------------------------------------------------------------
(* Further properties of the loader, checked under Spec *)

\* C27: after any sequence of loader runs (successful, failed or skipped) the
\* primary store holds at most one row per unique_key, and every stored row
\* has a unique_key and a created_date.
C27_PrimaryStoreInvariant ==
    /\ \A r, q \in service_requests : r.unique_key = q.unique_key => r = q
    /\ \A r \in service_requests : r.unique_key # None /\ r.created_date # None

\* a file with rows that lack the key or the date and with repeated keys was
\* loaded after a run had failed, and rows are stored
C27_Witness ==
    /\ \E p \in Loaders :
          /\ ld[p].file = FileA /\ ld[p].pc = "done" /\ ld[p].result = "success"
          /\ ld[p].rerun
    /\ Cardinality(service_requests) >= 2

-----------------------------------------------------------------------------
(* Properties of the concurrent traffic, checked under SpecTraffic *)

\* C28: the three workers of run_concurrent_ops, between the steps of a load
\* or a sync run and of each other, add no unique_key, remove none and change
\* no field in either store, so that a run ends with the store contents of
\* the run executed alone; run_concurrent_ops reports completion only after
\* its three workers have ended.
C28_FieldPreservingTraffic ==
    /\ [][(co' # co) => /\ service_requests' = service_requests
                        /\ ingestion_log' = ingestion_log
                        /\ mongo_docs' = mongo_docs
                        /\ mongo_sync_log' = mongo_sync_log]_vars
    /\ [](\A p \in Loaders :
            (ld[p].pc = "done" /\ ld[p].result = "success") =>
                Tables(service_requests, ingestion_log)
                    = FullLoad(Tables(ld[p].table0, ld[p].log0), ld[p].file))
    /\ [](\A p \in Syncers :
            (sy[p].pc = "done" /\ sy[p].result \in {"success", "no_data"}) =>
                mongo_docs = SeqSync(sy[p].docs0, sy[p].primary0, sy[p]).docs)
    /\ [](co.completed => \A k \in Workers : co.w[k].pc = "done")

\* the driver reported completion while a load was between two chunks, after
\* its update worker had run its statement on rows of the table
C28_Witness ==
    /\ co.completed
    /\ co.w["mysql_updates"].n < WorkerOps
    /\ \E p \in Loaders : ld[p].pc = "chunks" /\ ld[p].chunk_num = 1
    /\ \E r \in service_requests : r.borough \in Boroughs

-----------------------------------------------------------------------------
(* Connections *)

\* C29: every store connection opened by the loader, the sync engine or the
\* validator is closed by that operation on every exit path (success, the
\* ledger-gate skip, no_data, a failed query or write): none remains open once
\* the operation has returned or raised.
C29_ConnectionOwnership ==
    /\ \A p \in Loaders : ld[p].pc \in {"idle", "done"} => ~ld[p].conn_open
    /\ \A p \in Syncers : sy[p].pc \in {"idle", "done"} => ~sy[p].conns_open
    /\ vc.pc \in {"idle", "done", "sleep", "stopped"} => vc.open = {}

-----------------------------------------------------------------------------
(* Keys that come in more than one chunk, checked under Spec *)

\* the cleaned rows of chunk n of the file f
Cleaned(f, n) == clean_chunk(CSV(f)[n]).df

\* the chunks of f whose cleaned rows hold the key k
ChunksWith(f, k) ==
    {n \in 1..Len(CSV(f)) : \E i \in 1..Len(Cleaned(f, n)) : Cleaned(f, n)[i].unique_key = k}

\* the keys of f that come in two chunks or more
CrossChunkKeys(f) == {k \in KeysOf(f) : Cardinality(ChunksWith(f, k)) >= 2}

\* the row of the key k in the last chunk of f that holds it
LaterOccurrence(f, k) ==
    LET n == CHOOSE n \in ChunksWith(f, k) : \A m \in ChunksWith(f, k) : m <= n
        i == CHOOSE i \in 1..Len(Cleaned(f, n)) : Cleaned(f, n)[i].unique_key = k
    IN  Cleaned(f, n)[i]

\* C30: when a unique_key comes in two chunks of a file, a successful load
\* leaves exactly one row of that key, with the values of its occurrence in
\* the later chunk, and the ledger's ingested_rows counts both occurrences: it
\* is the sum of the sizes of the cleaned chunks, not the number of keys stored.
C30_ExactlyOncePerKey ==
    \A p \in Loaders :
        (ld[p].pc = "done" /\ ld[p].result = "success") =>
            LET f == ld[p].file
            IN  /\ \A k \in CrossChunkKeys(f) :
                      {r \in service_requests : r.unique_key = k}
                          = {LaterOccurrence(f, k)}
                /\ \E e \in ingestion_log :
                      /\ e.dataset_file = f
                      /\ e.ingested_rows = TotalRows(f, Len(CSV(f)))
                      /\ CrossChunkKeys(f) # {} =>
                            e.ingested_rows > Cardinality(KeysOf(f))

\* a file with a key in both of its chunks was loaded with success
C30_Witness ==
    \E p \in Loaders :
        /\ ld[p].pc = "done" /\ ld[p].result = "success"
        /\ CrossChunkKeys(ld[p].file) # {}
        /\ \E k \in CrossChunkKeys(ld[p].file), r \in service_requests :
              /\ r.unique_key = k
              /\ r # Cleaned(ld[p].file, 1)[1]

-----------------------------------------------------------------------------
(* Two loads of the same file at once, checked under SpecRace *)

\* both loaders ran the same file, passed the ledger gate and ended with success
BothLoaded(p, q) ==
    /\ p # q
    /\ ld[p].file = ld[q].file
    /\ ld[p].pc = "done" /\ ld[q].pc = "done"
    /\ ld[p].result = "success" /\ ld[q].result = "success"

\* C31: when two loader runs of the same file both pass the ledger gate and
\* both end with success, then in every interleaving of their window clears
\* and chunk upserts the rows of the primary store and the single ledger entry
\* of the file are those of one successful run of the file.
C31_SameFileConvergence ==
    \A p, q \in Loaders :
        BothLoaded(p, q) =>
            /\ Tables(service_requests, ingestion_log)
                  = FullLoad(Tables(ld[p].table0, ld[p].log0), ld[p].file)
            /\ Cardinality({e \in ingestion_log : e.dataset_file = ld[p].file}) = 1

\* both runs of FileA ended with success over tables that held a row of its
\* window, and one of them cleared the window after the other had written rows
C31_Witness ==
    \E p \in Loaders : \E q \in Loaders \ {p} :
        /\ BothLoaded(p, q) /\ ld[p].file = FileA
        /\ "delete" \in ld[p].ops /\ "delete" \in ld[q].ops
        /\ \E r \in ld[p].table0 : r \notin service_requests
        /\ \E r \in ld[q].table0 : r \in RowsOf(FileA)

====
